---- MODULE Spec2Model ----
(***************************************************************************)
(* A model of vector.cpp: RawMemory<T> (a raw, uninitialized buffer with a *)
(* capacity) and Vector<T> (a RawMemory plus the count of live objects).   *)
(*                                                                         *)
(* Buffers live in a heap, heap[id] being the slots of buffer id; buffer 0 *)
(* is nullptr.  A slot holds Raw (no object: uninitialized or destroyed    *)
(* memory) or the value of a live object.  Slot i of the code is index     *)
(* i + 1 of the TLA+ sequence.                                             *)
(*                                                                         *)
(* The element type T is a parameter of the program, fixed for a run:      *)
(*   "Trivial"  trivially copyable (int): nothing throws, a move copies    *)
(*              the bits, std::move_backward is a memmove;                 *)
(*   "Movable"  std::string-like: noexcept move that leaves the source     *)
(*              holding MovedFrom, a copy that may throw;                  *)
(*   "Copying"  a copy constructor that may throw and no noexcept move:    *)
(*              a move is a copy and may throw, so relocation copies.      *)
(*                                                                         *)
(* An exception is an input of the operation: t = 0 lets every step        *)
(* succeed, t = j >= 1 makes the j-th step that is able to throw do so.    *)
(*                                                                         *)
(* script is the list of the calls a scripted run has made so far; it      *)
(* stays empty in the runs that call the operations in any order.          *)
(*                                                                         *)
(* Specifications:                                                         *)
(*   Spec     one Vector, every member operation, in any order;            *)
(*   Spec2    two Vectors, with copy and move construction and assignment; *)
(*   SpecRaw  two RawMemory objects on their own;                          *)
(*   SpecInt  a scripted run on one Vector<int>;                           *)
(*   SpecRef  one Vector, Insert and PushBack of a reference to one of its *)
(*            own elements.                                                *)
(***************************************************************************)
EXTENDS Integers, Sequences, FiniteSets, TLC

VARIABLES vec, heap, kind, call, script

vars == <<vec, heap, kind, call, script>>

\* ------------------------------------------------------------- bounds
MaxCap == 4
MaxCap2 == 2
NBuf == 3

Values == {1, 2}
IntValues == {1, 2, 3, 99}
Vecs == {"a", "b"}
Kinds == {"Trivial", "Movable", "Copying"}

\* ------------------------------------------------------- element type
\* Raw: no object.  Default: a value-initialized T.  MovedFrom: what a
\* move leaves in the source of a "Movable" T; as for std::string, it is
\* the state of a value-initialized T.
Raw == -1
Default == 0
MovedFrom == Default

CopyMayThrow == kind # "Trivial"
MoveMayThrow == kind = "Copying"
DefaultMayThrow == kind = "Copying"
MovedValue(x) == IF kind = "Movable" THEN MovedFrom ELSE x
IsMemmove == kind = "Trivial"

UseCopy == kind = "Copying"

UseMove == ~UseCopy

\* ------------------------------------------------------ throwing steps
\* n steps that throw when `can`: the t-th throws, `done` steps completed
Step(can, t, n) ==
  LET thr == can /\ t >= 1 /\ t <= n
  IN [thr |-> thr,
      done |-> IF thr THEN t - 1 ELSE n,
      t |-> IF can /\ t > n THEN t - n ELSE IF can THEN 0 ELSE t]

\* ---------------------------------------------------------- RawMemory
Slots(n) == [i \in 1..n |-> Raw]
Live(b) == {i \in 1..Len(b) : b[i] # Raw}
Buf(h, id) == IF id = 0 THEN <<>> ELSE h[id]
Put(h, id, b) == IF id = 0 THEN h ELSE [h EXCEPT ![id] = b]

AllocateFirstFree(h, n) ==
  IF n = 0 THEN 0
  ELSE CHOOSE id \in 1..NBuf :
         h[id] = <<>> /\ \A j \in 1..(id - 1) : h[j] # <<>>

Allocate(h, n) == AllocateFirstFree(h, n)

Deallocate(h, id) == Put(h, id, <<>>)

\* ------------------------------------------------ <memory>, <algorithm>
UninitializedCopyN(src, sfrom, n, dst, dfrom, t) ==
  LET s == Step(CopyMayThrow, t, n)
  IN [ok |-> ~s.thr,
      t |-> s.t,
      dst |-> [i \in 1..Len(dst) |->
                 IF i > dfrom /\ i <= dfrom + n
                 THEN IF s.thr THEN Raw ELSE src[sfrom + (i - dfrom)]
                 ELSE dst[i]]]

UninitializedMoveN(src, sfrom, n, dst, dfrom, t) ==
  LET s == Step(MoveMayThrow, t, n)
  IN [ok |-> ~s.thr,
      t |-> s.t,
      src |-> [i \in 1..Len(src) |->
                 IF i > sfrom /\ i <= sfrom + s.done
                 THEN MovedValue(src[i]) ELSE src[i]],
      dst |-> [i \in 1..Len(dst) |->
                 IF i > dfrom /\ i <= dfrom + n
                 THEN IF s.thr THEN Raw ELSE src[sfrom + (i - dfrom)]
                 ELSE dst[i]]]

UninitializedValueConstructN(dst, dfrom, n, t) ==
  LET s == Step(DefaultMayThrow, t, n)
  IN [ok |-> ~s.thr,
      t |-> s.t,
      dst |-> [i \in 1..Len(dst) |->
                 IF i > dfrom /\ i <= dfrom + n
                 THEN IF s.thr THEN Raw ELSE Default
                 ELSE dst[i]]]

DestroyN(b, from, n) ==
  [i \in 1..Len(b) |-> IF i > from /\ i <= from + n THEN Raw ELSE b[i]]

\* std::copy(src + 0, src + n, dst + 0): copy assignment, first to last
Copy(src, n, dst, t) ==
  LET s == Step(CopyMayThrow, t, n)
  IN [ok |-> ~s.thr,
      t |-> s.t,
      dst |-> [i \in 1..Len(dst) |-> IF i <= s.done THEN src[i] ELSE dst[i]]]

\* std::move_backward(b + first, b + last, b + dlast) on one buffer: the
\* loop *--dlast = std::move(*--last)
RECURSIVE MoveBackwardLoop(_, _, _, _, _)
MoveBackwardLoop(b, first, last, dlast, t) ==
  IF last <= first THEN [ok |-> TRUE, t |-> t, b |-> b]
  ELSE LET s == Step(MoveMayThrow, t, 1)
       IN IF s.thr THEN [ok |-> FALSE, t |-> 0, b |-> b]
          ELSE MoveBackwardLoop(
                 [i \in 1..Len(b) |->
                    IF i = dlast THEN b[last]
                    ELSE IF i = last THEN MovedValue(b[last])
                    ELSE b[i]],
                 first, last - 1, dlast - 1, s.t)

\* for a trivially copyable T the library turns the loop into a memmove
MoveBackwardMemmove(b, first, last, dlast) ==
  [i \in 1..Len(b) |->
     IF i > dlast - (last - first) /\ i <= dlast
     THEN b[i + (last - dlast)] ELSE b[i]]

MoveBackward(b, first, last, dlast, t) ==
  IF IsMemmove
  THEN [ok |-> TRUE, t |-> t, b |-> MoveBackwardMemmove(b, first, last, dlast)]
  ELSE MoveBackwardLoop(b, first, last, dlast, t)

\* -------------------------------------------------------------- Vector
\* W is the world [vec, heap] an operation starts in.  Its result is the
\* world it leaves, whether it threw (failed), the iterator it returned
\* (ret), the slots of the buffer it released that held an object (leaked)
\* and what is left of t.
Null == [alive |-> FALSE, buf |-> 0, cap |-> 0, size |-> 0]
Empty == [alive |-> TRUE, buf |-> 0, cap |-> 0, size |-> 0]
NoIt == [buf |-> 0, idx |-> 0]
\* the slots (as the code numbers them) of a released buffer b that still
\* held an object
Left(b) == {i - 1 : i \in Live(b)}

Res(V, H, failed, ret, leaked, t) ==
  [vec |-> V, heap |-> H, failed |-> failed, ret |-> ret,
   leaked |-> leaked, t |-> t]

Failed(W, leaked) == Res(W.vec, W.heap, TRUE, NoIt, leaked, 0)

InitOnConstruct(old, size, new, t) ==
  IF UseMove
  THEN LET r == UninitializedMoveN(old, 0, size, new, 0, t)
       IN [ok |-> r.ok, t |-> r.t, old |-> r.src, new |-> r.dst]
  ELSE LET r == UninitializedCopyN(old, 0, size, new, 0, t)
       IN [ok |-> r.ok, t |-> r.t, old |-> old, new |-> r.dst]

\* the slip: data_ exchanged, size_ left behind
SwapDataOnly(W, v, w) ==
  [W.vec EXCEPT ![v].buf = W.vec[w].buf, ![v].cap = W.vec[w].cap,
                ![w].buf = W.vec[v].buf, ![w].cap = W.vec[v].cap]

Swap(W, v, w) ==
  [W.vec EXCEPT ![v] = W.vec[w], ![w] = W.vec[v]]

\* the slip: the old elements destroyed before the new buffer is filled
ReserveDestroyFirst(W, v, n, t) ==
  LET d == W.vec[v]
      a == Step(TRUE, t, 1)
      nid == Allocate(W.heap, n)
      r == InitOnConstruct(Buf(W.heap, d.buf), d.size, Slots(n), a.t)
      old == DestroyN(r.old, 0, d.size)
  IN IF n <= d.cap THEN Res(W.vec, W.heap, FALSE, NoIt, {}, t)
     ELSE IF a.thr THEN Failed(W, {})
     ELSE IF ~r.ok
       THEN Failed([W EXCEPT !.heap = Put(W.heap, d.buf, old)], Left(r.new))
     ELSE Res([W.vec EXCEPT ![v].buf = nid, ![v].cap = n],
              Put(Deallocate(W.heap, d.buf), nid, r.new),
              FALSE, NoIt, Left(old), r.t)

\* the slip: if (new_capacity < data_.Capacity()) return;
ReserveStrict(W, v, n, t) ==
  LET d == W.vec[v]
      a == Step(TRUE, t, 1)
      nid == Allocate(W.heap, n)
      r == InitOnConstruct(Buf(W.heap, d.buf), d.size, Slots(n), a.t)
      old == DestroyN(r.old, 0, d.size)
  IN IF n < d.cap THEN Res(W.vec, W.heap, FALSE, NoIt, {}, t)
     ELSE IF a.thr THEN Failed(W, {})
     ELSE IF ~r.ok
       THEN Failed([W EXCEPT !.heap = Put(W.heap, d.buf, r.old)], Left(r.new))
     ELSE Res([W.vec EXCEPT ![v].buf = nid, ![v].cap = n],
              Put(Deallocate(W.heap, d.buf), nid, r.new),
              FALSE, NoIt, Left(old), r.t)

Reserve(W, v, n, t) ==
  LET d == W.vec[v]
      a == Step(TRUE, t, 1)
      nid == Allocate(W.heap, n)
      r == InitOnConstruct(Buf(W.heap, d.buf), d.size, Slots(n), a.t)
      old == DestroyN(r.old, 0, d.size)
  IN IF n <= d.cap THEN Res(W.vec, W.heap, FALSE, NoIt, {}, t)
     ELSE IF a.thr THEN Failed(W, {})
     ELSE IF ~r.ok
       THEN Failed([W EXCEPT !.heap = Put(W.heap, d.buf, r.old)], Left(r.new))
     ELSE Res([W.vec EXCEPT ![v].buf = nid, ![v].cap = n],
              Put(Deallocate(W.heap, d.buf), nid, r.new),
              FALSE, NoIt, Left(old), r.t)

\* the slip: the shrinking branch sets size_ and destroys nothing
ResizeNoDestroy(W, v, n, t) ==
  LET d == W.vec[v]
      g == Reserve(W, v, n, t)
      gd == g.vec[v]
      c == UninitializedValueConstructN(Buf(g.heap, gd.buf), d.size, n - d.size, g.t)
  IN IF n > d.size
     THEN IF g.failed THEN g
          ELSE IF ~c.ok THEN Res(g.vec, g.heap, TRUE, NoIt, g.leaked, 0)
          ELSE Res([g.vec EXCEPT ![v].size = n], Put(g.heap, gd.buf, c.dst),
                   FALSE, NoIt, g.leaked, c.t)
     ELSE Res([W.vec EXCEPT ![v].size = n], W.heap, FALSE, NoIt, {}, t)

Resize(W, v, n, t) ==
  LET d == W.vec[v]
      g == Reserve(W, v, n, t)
      gd == g.vec[v]
      c == UninitializedValueConstructN(Buf(g.heap, gd.buf), d.size, n - d.size, g.t)
  IN IF n > d.size
     THEN IF g.failed THEN g
          ELSE IF ~c.ok THEN Res(g.vec, g.heap, TRUE, NoIt, g.leaked, 0)
          ELSE Res([g.vec EXCEPT ![v].size = n], Put(g.heap, gd.buf, c.dst),
                   FALSE, NoIt, g.leaked, c.t)
     ELSE Res([W.vec EXCEPT ![v].size = n],
              Put(W.heap, d.buf, DestroyN(Buf(W.heap, d.buf), n, d.size - n)),
              FALSE, NoIt, {}, t)

\* the slip: a full buffer grows by one slot
EmplaceBackGrowsByOne(W, v, x, t) ==
  LET d == W.vec[v]
      ncap == d.size + 1
      a == Step(TRUE, t, 1)
      nid == Allocate(W.heap, ncap)
      c == Step(CopyMayThrow, a.t, 1)
      r == InitOnConstruct(Buf(W.heap, d.buf), d.size,
                           [Slots(ncap) EXCEPT ![d.size + 1] = x], c.t)
      old == DestroyN(r.old, 0, d.size)
      e == Step(CopyMayThrow, t, 1)
  IN IF d.size = d.cap
     THEN IF a.thr \/ c.thr THEN Failed(W, {})
          ELSE IF ~r.ok
            THEN Failed([W EXCEPT !.heap = Put(W.heap, d.buf, r.old)],
                        Left(r.new))
          ELSE Res([W.vec EXCEPT ![v].buf = nid, ![v].cap = ncap,
                                 ![v].size = d.size + 1],
                   Put(Deallocate(W.heap, d.buf), nid, r.new),
                   FALSE, [buf |-> nid, idx |-> d.size], Left(old), r.t)
     ELSE IF e.thr THEN Failed(W, {})
          ELSE Res([W.vec EXCEPT ![v].size = d.size + 1],
                   Put(W.heap, d.buf, [W.heap[d.buf] EXCEPT ![d.size + 1] = x]),
                   FALSE, [buf |-> d.buf, idx |-> d.size], {}, e.t)

EmplaceBack(W, v, x, t) ==
  LET d == W.vec[v]
      ncap == IF d.size = 0 THEN 1 ELSE d.size * 2
      a == Step(TRUE, t, 1)
      nid == Allocate(W.heap, ncap)
      c == Step(CopyMayThrow, a.t, 1)
      r == InitOnConstruct(Buf(W.heap, d.buf), d.size,
                           [Slots(ncap) EXCEPT ![d.size + 1] = x], c.t)
      old == DestroyN(r.old, 0, d.size)
      e == Step(CopyMayThrow, t, 1)
  IN IF d.size = d.cap
     THEN IF a.thr \/ c.thr THEN Failed(W, {})
          ELSE IF ~r.ok
            THEN Failed([W EXCEPT !.heap = Put(W.heap, d.buf, r.old)],
                        Left(r.new))
          ELSE Res([W.vec EXCEPT ![v].buf = nid, ![v].cap = ncap,
                                 ![v].size = d.size + 1],
                   Put(Deallocate(W.heap, d.buf), nid, r.new),
                   FALSE, [buf |-> nid, idx |-> d.size], Left(old), r.t)
     ELSE IF e.thr THEN Failed(W, {})
          ELSE Res([W.vec EXCEPT ![v].size = d.size + 1],
                   Put(W.heap, d.buf, [W.heap[d.buf] EXCEPT ![d.size + 1] = x]),
                   FALSE, [buf |-> d.buf, idx |-> d.size], {}, e.t)

\* the slip: if (size_ > 1)
PopBackKeepsOne(W, v) ==
  LET d == W.vec[v]
  IN IF d.size > 1
     THEN Res([W.vec EXCEPT ![v].size = d.size - 1],
              Put(W.heap, d.buf, DestroyN(W.heap[d.buf], d.size - 1, 1)),
              FALSE, NoIt, {}, 0)
     ELSE Res(W.vec, W.heap, FALSE, NoIt, {}, 0)

\* the slip: no test of size_ > 0, and the size of an empty sequence
\* counted down
PopBackUnchecked(W, v) ==
  LET d == W.vec[v]
  IN Res([W.vec EXCEPT ![v].size = d.size - 1],
         Put(W.heap, d.buf, DestroyN(Buf(W.heap, d.buf), d.size - 1, 1)),
         FALSE, NoIt, {}, 0)

PopBack(W, v) ==
  LET d == W.vec[v]
  IN IF d.size > 0
     THEN Res([W.vec EXCEPT ![v].size = d.size - 1],
              Put(W.heap, d.buf, DestroyN(W.heap[d.buf], d.size - 1, 1)),
              FALSE, NoIt, {}, 0)
     ELSE Res(W.vec, W.heap, FALSE, NoIt, {}, 0)

\* noexcept: a throwing move assignment ends the program, so none throws
Erase(W, v, count) ==
  LET d == W.vec[v]
      m == MoveBackward(W.heap[d.buf], count + 1, d.size, d.size - 1, 0)
      p == PopBack([W EXCEPT !.heap = Put(W.heap, d.buf, m.b)], v)
  IN Res(p.vec, p.heap, FALSE, [buf |-> d.buf, idx |-> count], {}, 0)

\* the slip: the handler rethrows and destroys nothing
CaughtNothing(new, count) == new

\* catch (...) { std::destroy_n(new_data.GetAddress() + count, 1); throw; }
Caught(new, count) == DestroyN(new, count, 1)

\* the slip: RawMemory<T> new_data(size_ + 1)
ReAllocateEmplaceTight(W, v, count, x, t) ==
  LET d == W.vec[v]
      ncap == d.size + 1
      a == Step(TRUE, t, 1)
      nid == Allocate(W.heap, ncap)
      c == Step(CopyMayThrow, a.t, 1)
      new0 == [Slots(ncap) EXCEPT ![count + 1] = x]
      ob == Buf(W.heap, d.buf)
      m1 == UninitializedMoveN(ob, 0, count, new0, 0, c.t)
      m2 == UninitializedMoveN(m1.src, count, d.size - count, m1.dst, count + 1, m1.t)
      c1 == UninitializedCopyN(ob, 0, count, new0, 0, c.t)
      c2 == UninitializedCopyN(ob, count, d.size - count, c1.dst, count + 1, c1.t)
      ok == IF UseMove THEN m1.ok /\ m2.ok ELSE c1.ok /\ c2.ok
      caught == Caught(IF c1.ok THEN c2.dst ELSE c1.dst, count)
      new == IF UseMove THEN m2.dst ELSE c2.dst
      old == DestroyN(IF UseMove THEN m2.src ELSE ob, 0, d.size)
  IN IF a.thr \/ c.thr THEN Failed(W, {})
     ELSE IF ~ok THEN Failed(W, Left(caught))
     ELSE Res([W.vec EXCEPT ![v].buf = nid, ![v].cap = ncap],
              Put(Deallocate(W.heap, d.buf), nid, new),
              FALSE, [buf |-> nid, idx |-> count], Left(old), 0)

ReAllocateEmplace(W, v, count, x, t) ==
  LET d == W.vec[v]
      ncap == IF d.size = 0 THEN 1 ELSE d.size * 2
      a == Step(TRUE, t, 1)
      nid == Allocate(W.heap, ncap)
      c == Step(CopyMayThrow, a.t, 1)
      new0 == [Slots(ncap) EXCEPT ![count + 1] = x]
      ob == Buf(W.heap, d.buf)
      m1 == UninitializedMoveN(ob, 0, count, new0, 0, c.t)
      m2 == UninitializedMoveN(m1.src, count, d.size - count, m1.dst, count + 1, m1.t)
      c1 == UninitializedCopyN(ob, 0, count, new0, 0, c.t)
      c2 == UninitializedCopyN(ob, count, d.size - count, c1.dst, count + 1, c1.t)
      ok == IF UseMove THEN m1.ok /\ m2.ok ELSE c1.ok /\ c2.ok
      caught == Caught(IF c1.ok THEN c2.dst ELSE c1.dst, count)
      new == IF UseMove THEN m2.dst ELSE c2.dst
      old == DestroyN(IF UseMove THEN m2.src ELSE ob, 0, d.size)
  IN IF a.thr \/ c.thr THEN Failed(W, {})
     ELSE IF ~ok THEN Failed(W, Left(caught))
     ELSE Res([W.vec EXCEPT ![v].buf = nid, ![v].cap = ncap],
              Put(Deallocate(W.heap, d.buf), nid, new),
              FALSE, [buf |-> nid, idx |-> count], Left(old), 0)

\* the slip: no handler around std::move_backward, the object built at
\* end() stays
NoAllocateEmplaceNoCatch(W, v, count, x, t) ==
  LET d == W.vec[v]
      b == W.heap[d.buf]
      s1 == Step(MoveMayThrow, t, 1)
      b1 == [i \in 1..Len(b) |->
               IF i = d.size + 1 THEN b[d.size]
               ELSE IF i = d.size THEN MovedValue(b[d.size])
               ELSE b[i]]
      m == MoveBackward(b1, count, d.size, d.size + 1, s1.t)
      b3 == IF d.size # 0 THEN DestroyN(m.b, count, 1) ELSE b
      s2 == Step(CopyMayThrow, IF d.size # 0 THEN m.t ELSE t, 1)
  IN IF d.size # 0 /\ s1.thr THEN Failed(W, {})
     ELSE IF d.size # 0 /\ ~m.ok
       THEN Failed([W EXCEPT !.heap = Put(W.heap, d.buf, m.b)], {})
     ELSE IF s2.thr
       THEN Failed([W EXCEPT !.heap = Put(W.heap, d.buf, b3)], {})
     ELSE Res(W.vec, Put(W.heap, d.buf, [b3 EXCEPT ![count + 1] = x]),
              FALSE, [buf |-> d.buf, idx |-> count], {}, 0)

NoAllocateEmplace(W, v, count, x, t) ==
  LET d == W.vec[v]
      b == W.heap[d.buf]
      s1 == Step(MoveMayThrow, t, 1)
      b1 == [i \in 1..Len(b) |->
               IF i = d.size + 1 THEN b[d.size]
               ELSE IF i = d.size THEN MovedValue(b[d.size])
               ELSE b[i]]
      m == MoveBackward(b1, count, d.size, d.size + 1, s1.t)
      b3 == IF d.size # 0 THEN DestroyN(m.b, count, 1) ELSE b
      s2 == Step(CopyMayThrow, IF d.size # 0 THEN m.t ELSE t, 1)
  IN IF d.size # 0 /\ s1.thr THEN Failed(W, {})
     ELSE IF d.size # 0 /\ ~m.ok
       THEN Failed([W EXCEPT !.heap = Put(W.heap, d.buf, DestroyN(m.b, d.size, 1))], {})
     ELSE IF s2.thr
       THEN Failed([W EXCEPT !.heap = Put(W.heap, d.buf, b3)], {})
     ELSE Res(W.vec, Put(W.heap, d.buf, [b3 EXCEPT ![count + 1] = x]),
              FALSE, [buf |-> d.buf, idx |-> count], {}, 0)

Emplace(W, v, count, x, t) ==
  LET d == W.vec[v]
      r == IF d.size = d.cap
           THEN ReAllocateEmplace(W, v, count, x, t)
           ELSE NoAllocateEmplace(W, v, count, x, t)
  IN IF r.failed THEN r
     ELSE [r EXCEPT !.vec[v].size = d.size + 1]

\* The buffer of v as line 324 of an in-place Emplace at `count` finds it:
\* the last element constructed one slot up, the elements from `count` on
\* moved up by one, the object at `count` destroyed.
AfterShift(W, v, count) ==
  LET d == W.vec[v]
      b == W.heap[d.buf]
      b1 == [i \in 1..Len(b) |->
               IF i = d.size + 1 THEN b[d.size]
               ELSE IF i = d.size THEN MovedValue(b[d.size])
               ELSE b[i]]
      m == MoveBackward(b1, count, d.size, d.size + 1, 0)
  IN IF d.size # 0 THEN DestroyN(m.b, count, 1) ELSE b

\* Emplace(pos, value) with value a reference to the element in slot j of
\* the same sequence.  ReAllocateEmplace constructs the new element first,
\* from the old buffer as the call found it.  NoAllocateEmplace constructs
\* it last, from what slot j holds after the shift; when that slot holds no
\* object any more the read is undefined, and u is the value it yields.
EmplaceRef(W, v, count, j, u, t) ==
  LET d == W.vec[v]
      now == Buf(W.heap, d.buf)[j + 1]
      late == AfterShift(W, v, count)[j + 1]
  IN IF d.size = d.cap THEN Emplace(W, v, count, now, t)
     ELSE Emplace(W, v, count, IF late = Raw THEN u ELSE late, t)

\* EmplaceBack(value) with value a reference to the element in slot j: both
\* branches construct the new element before anything else is touched
EmplaceBackRef(W, v, j, t) ==
  EmplaceBack(W, v, Buf(W.heap, W.vec[v].buf)[j + 1], t)

\* ------------------------------------------------- RawMemory, on its own
\* A RawMemory object v is vec[v] with size 0: its buffer_ is vec[v].buf
\* and its capacity_ is vec[v].cap.

\* RawMemory(size_t capacity)
RawMemoryConstruct(W, v, n, t) ==
  LET a == Step(n # 0, t, 1)
      nid == Allocate(W.heap, n)
  IN IF a.thr THEN Failed(W, {})
     ELSE Res([W.vec EXCEPT ![v] = [alive |-> TRUE, buf |-> nid,
                                    cap |-> n, size |-> 0]],
              Put(W.heap, nid, Slots(n)), FALSE, NoIt, {}, a.t)

\* RawMemory(RawMemory&& other)
RawMemoryMoveConstruct(W, v, other) ==
  Res([W.vec EXCEPT ![v] = [alive |-> TRUE, buf |-> W.vec[other].buf,
                            cap |-> W.vec[other].cap, size |-> 0],
                    ![other].buf = 0, ![other].cap = 0],
      W.heap, FALSE, NoIt, {}, 0)

\* void Swap(RawMemory& other)
RawMemorySwap(W, v, other) ==
  [W.vec EXCEPT ![v].buf = W.vec[other].buf, ![v].cap = W.vec[other].cap,
                ![other].buf = W.vec[v].buf, ![other].cap = W.vec[v].cap]

\* operator=(RawMemory&& rhs).  buffer_ is a T*, and buffer_.~RawMemory()
\* names on it the destructor of another type: a build rejects the
\* statement wherever the operator is instantiated.  Read as the destructor
\* call on a pointer that it is, the statement releases nothing and leaves
\* buffer_ as it is; capacity_ = 0 and the exchange with rhs follow.
RawMemoryMoveAssign(W, v, rhs) ==
  IF v = rhs THEN Res(W.vec, W.heap, FALSE, NoIt, {}, 0)
  ELSE LET Z == [W EXCEPT !.vec[v].cap = 0]
       IN Res(RawMemorySwap(Z, v, rhs), W.heap, FALSE, NoIt, {}, 0)

\* ~RawMemory()
RawMemoryDestruct(W, v) ==
  Res([W.vec EXCEPT ![v] = Null], Deallocate(W.heap, W.vec[v].buf),
      FALSE, NoIt, {}, 0)

\* ------------------------------------- Vector: construction, assignment
\* Vector(): data_ and size_ take their default member initializers
DefaultConstruct(W, v) ==
  Res([W.vec EXCEPT ![v] = Empty], W.heap, FALSE, NoIt, {}, 0)

SizedConstruct(W, v, n, t) ==
  LET a == Step(n # 0, t, 1)
      nid == Allocate(W.heap, n)
      c == UninitializedValueConstructN(Slots(n), 0, n, a.t)
  IN IF a.thr THEN Failed(W, {})
     ELSE IF ~c.ok THEN Failed(W, Left(c.dst))
     ELSE Res([W.vec EXCEPT ![v] = [alive |-> TRUE, buf |-> nid, cap |-> n, size |-> n]],
              Put(W.heap, nid, c.dst), FALSE, NoIt, {}, c.t)

\* the slip: the copy takes the source's buffer, not a copy of it
CopyConstructShallow(W, v, other, t) ==
  Res([W.vec EXCEPT ![v] = [W.vec[other] EXCEPT !.cap = W.vec[other].size]],
      W.heap, FALSE, NoIt, {}, t)

CopyConstruct(W, v, other, t) ==
  LET o == W.vec[other]
      a == Step(o.size # 0, t, 1)
      nid == Allocate(W.heap, o.size)
      c == UninitializedCopyN(Buf(W.heap, o.buf), 0, o.size, Slots(o.size), 0, a.t)
  IN IF a.thr THEN Failed(W, {})
     ELSE IF ~c.ok THEN Failed(W, Left(c.dst))
     ELSE Res([W.vec EXCEPT ![v] = [alive |-> TRUE, buf |-> nid,
                                    cap |-> o.size, size |-> o.size]],
              Put(W.heap, nid, c.dst), FALSE, NoIt, {}, c.t)

MoveConstruct(W, v, other) ==
  LET V == [W.vec EXCEPT ![v] = Empty]
  IN Res(Swap([W EXCEPT !.vec = V], v, other), W.heap, FALSE, NoIt, {}, 0)

\* ~Vector() and then ~RawMemory() of data_
Destruct(W, v) ==
  LET d == W.vec[v]
      b == DestroyN(Buf(W.heap, d.buf), 0, d.size)
  IN Res([W.vec EXCEPT ![v] = Null], Deallocate(W.heap, d.buf),
         FALSE, NoIt, Left(b), 0)

\* Vector rhs_copy(rhs); Swap(rhs_copy); and ~Vector() of rhs_copy
CopyAndSwap(W, v, rhs, t) ==
  LET d == W.vec[v]
      r == W.vec[rhs]
      a == Step(r.size # 0, t, 1)
      nid == Allocate(W.heap, r.size)
      c == UninitializedCopyN(Buf(W.heap, r.buf), 0, r.size, Slots(r.size), 0, a.t)
      gone == DestroyN(Buf(W.heap, d.buf), 0, d.size)
  IN IF a.thr THEN Failed(W, {})
     ELSE IF ~c.ok THEN Failed(W, Left(c.dst))
     ELSE Res([W.vec EXCEPT ![v].buf = nid, ![v].cap = r.size, ![v].size = r.size],
              Put(Deallocate(W.heap, d.buf), nid, c.dst),
              FALSE, NoIt, Left(gone), c.t)

\* the slip: the elements past the common prefix neither destroyed nor
\* constructed
CopyReusingPrefixOnly(W, v, rhs, t) ==
  LET d == W.vec[v]
      r == W.vec[rhs]
      count == IF r.size < d.size THEN r.size ELSE d.size
      c == Copy(Buf(W.heap, r.buf), count, Buf(W.heap, d.buf), t)
  IN IF ~c.ok
       THEN Failed([W EXCEPT !.heap = Put(W.heap, d.buf, c.dst)], {})
     ELSE Res([W.vec EXCEPT ![v].size = r.size],
              Put(W.heap, d.buf, c.dst), FALSE, NoIt, {}, c.t)

\* the else branch: copy over the elements there are, then destroy the
\* excess or construct the rest
CopyReusing(W, v, rhs, t) ==
  LET d == W.vec[v]
      r == W.vec[rhs]
      rb == Buf(W.heap, r.buf)
      count == IF r.size < d.size THEN r.size ELSE d.size
      c == Copy(rb, count, Buf(W.heap, d.buf), t)
      u == UninitializedCopyN(rb, d.size, r.size - d.size, c.dst, d.size, c.t)
  IN IF ~c.ok
       THEN Failed([W EXCEPT !.heap = Put(W.heap, d.buf, c.dst)], {})
     ELSE IF r.size < d.size
       THEN Res([W.vec EXCEPT ![v].size = r.size],
                Put(W.heap, d.buf, DestroyN(c.dst, r.size, d.size - r.size)),
                FALSE, NoIt, {}, c.t)
     ELSE IF ~u.ok
       THEN Failed([W EXCEPT !.heap = Put(W.heap, d.buf, u.dst)], {})
     ELSE Res([W.vec EXCEPT ![v].size = r.size],
              Put(W.heap, d.buf, u.dst), FALSE, NoIt, {}, u.t)

CopyAssign(W, v, rhs, t) ==
  IF v = rhs THEN Res(W.vec, W.heap, FALSE, NoIt, {}, t)
  ELSE IF W.vec[rhs].size > W.vec[v].cap THEN CopyAndSwap(W, v, rhs, t)
  ELSE CopyReusing(W, v, rhs, t)

MoveAssign(W, v, rhs) ==
  IF v = rhs THEN Res(W.vec, W.heap, FALSE, NoIt, {}, 0)
  ELSE Res(Swap(W, v, rhs), W.heap, FALSE, NoIt, {}, 0)

\* -------------------------------------------------------------- actions
World == [vec |-> vec, heap |-> heap]
After == [vec |-> vec', heap |-> heap']

\* the elements of v: slots [0, size) of its buffer
Elems(W, v) ==
  LET b == Buf(W.heap, W.vec[v].buf)
  IN [i \in 1..W.vec[v].size |-> b[i]]

\* exactly the slots [0, size) of v hold an object
Valid(W, v) == Live(Buf(W.heap, W.vec[v].buf)) = 1..W.vec[v].size

\* A member function may be called on v: v is constructed, and its slots
\* are as every member function takes them to be.  On a sequence with a
\* dead slot below size or a live one above, a member function reads,
\* assigns or destroys what is no object: the behaviour is undefined and
\* the model follows that sequence no further.
Usable(v) == vec[v].alive /\ Valid(World, v)

\* call: the operation the last step ran, on v (and w), with the position
\* p and the value x it was given, and what it reported.  s keeps the
\* elements v had before an Erase or a PushBack, and `undoes` names that
\* operation in the call that reverses it: a PopBack right after a
\* PushBack, an Insert right after an Erase, at the erased position and of
\* the erased value.  `changed` tells that the call failed and left v with
\* other elements than it had.
Undoes(op, v, p, x) ==
  IF op = "PopBack" /\ call.op = "PushBack" /\ call.v = v /\ ~call.failed
    THEN "PushBack"
  ELSE IF op = "Insert" /\ call.op = "Erase" /\ call.v = v /\ call.p = p
          /\ call.s[p + 1] = x
    THEN "Erase"
  ELSE "none"

Called(op, v, w, p, x, r) ==
  /\ vec' = r.vec
  /\ heap' = r.heap
  /\ call' = [op |-> op, v |-> v, w |-> w, p |-> p, x |-> x,
              failed |-> r.failed, ret |-> r.ret, leaked |-> r.leaked,
              changed |-> r.failed /\ Elems(r, v) # Elems(World, v),
              undoes |-> Undoes(op, v, p, x),
              s |-> IF op \in {"Erase", "PushBack"} THEN Elems(World, v)
                    ELSE IF Undoes(op, v, p, x) # "none" THEN call.s
                    ELSE <<>>]
  /\ UNCHANGED kind

Do(op, v, w, p, x, r) ==
  /\ Called(op, v, w, p, x, r)
  /\ UNCHANGED script

\* the values of t worth trying for an operation that allocates `alloc`
\* times, copies `copy` elements, moves `move` and value-initializes `dflt`
Throwing(alloc, copy, move, dflt) ==
  0..(alloc + (IF CopyMayThrow THEN copy ELSE 0)
            + (IF MoveMayThrow THEN move ELSE 0)
            + (IF DefaultMayThrow THEN dflt ELSE 0))

\* the copies InitOnConstruct makes of n elements
Relocs(n) == IF UseCopy THEN n ELSE 0

Init ==
  /\ vec = [v \in Vecs |-> IF v = "a" THEN Empty ELSE Null]
  /\ heap = [id \in 1..NBuf |-> <<>>]
  /\ kind \in Kinds
  /\ call = [op |-> "Vector", v |-> "a", w |-> "a", p |-> 0, x |-> 0,
             failed |-> FALSE, ret |-> NoIt, leaked |-> {},
             changed |-> FALSE, undoes |-> "none", s |-> <<>>]
  /\ script = <<>>

DoPushBack(v, C) ==
  LET d == vec[v] IN
  /\ Usable(v)
  /\ d.size < d.cap \/ (d.size = 0 /\ 1 <= C) \/ 2 * d.size <= C
  /\ \E x \in Values :
     \E t \in IF d.size < d.cap THEN Throwing(0, 1, 0, 0)
               ELSE Throwing(1, 1 + Relocs(d.size), 0, 0) :
       Do("PushBack", v, v, d.size, x, EmplaceBack(World, v, x, t))

DoPopBack(v) ==
  /\ Usable(v)
  /\ Do("PopBack", v, v, 0, 0, PopBack(World, v))

DoInsert(v, C) ==
  LET d == vec[v] IN
  /\ Usable(v)
  /\ d.size < d.cap \/ (d.size = 0 /\ 1 <= C) \/ 2 * d.size <= C
  /\ \E p \in 0..d.size, x \in Values :
     \E t \in IF d.size = d.cap THEN Throwing(1, 1 + Relocs(d.size), 0, 0)
               ELSE IF d.size = 0 THEN Throwing(0, 1, 0, 0)
               ELSE Throwing(0, 1, 1 + d.size - p, 0) :
       Do("Insert", v, v, p, x, Emplace(World, v, p, x, t))

DoErase(v) ==
  /\ Usable(v)
  /\ \E p \in 0..(vec[v].size - 1) :
       Do("Erase", v, v, p, 0, Erase(World, v, p))

DoReserve(v, C) ==
  LET d == vec[v] IN
  /\ Usable(v)
  /\ \E n \in 0..C :
     \E t \in IF n <= d.cap THEN {0} ELSE Throwing(1, Relocs(d.size), 0, 0) :
       Do("Reserve", v, v, n, 0, Reserve(World, v, n, t))

DoResize(v, C) ==
  LET d == vec[v] IN
  /\ Usable(v)
  /\ \E n \in 0..C :
     \E t \in IF n <= d.size THEN {0}
               ELSE IF n <= d.cap THEN Throwing(0, 0, 0, n - d.size)
               ELSE Throwing(1, Relocs(d.size), 0, n - d.size) :
       Do("Resize", v, v, n, 0, Resize(World, v, n, t))

DoDestruct(v) ==
  /\ Usable(v)
  /\ Do("~Vector", v, v, 0, 0, Destruct(World, v))

DoDefaultConstruct(v) ==
  /\ ~vec[v].alive
  /\ Do("Vector", v, v, 0, 0, DefaultConstruct(World, v))

DoSizedConstruct(v, C) ==
  /\ ~vec[v].alive
  /\ \E n \in 0..C :
     \E t \in Throwing(IF n = 0 THEN 0 ELSE 1, 0, 0, n) :
       Do("SizedConstruct", v, v, n, 0, SizedConstruct(World, v, n, t))

DoCopyConstruct(v, w) ==
  /\ ~vec[v].alive /\ Usable(w)
  /\ \E t \in Throwing(IF vec[w].size = 0 THEN 0 ELSE 1, vec[w].size, 0, 0) :
       Do("CopyConstruct", v, w, 0, 0, CopyConstruct(World, v, w, t))

DoMoveConstruct(v, w) ==
  /\ ~vec[v].alive /\ Usable(w)
  /\ Do("MoveConstruct", v, w, 0, 0, MoveConstruct(World, v, w))

DoCopyAssign(v, w) ==
  /\ Usable(v) /\ Usable(w)
  /\ \E t \in Throwing(IF vec[w].size > vec[v].cap THEN 1 ELSE 0, vec[w].size, 0, 0) :
       Do("CopyAssign", v, w, 0, 0, CopyAssign(World, v, w, t))

DoMoveAssign(v, w) ==
  /\ Usable(v) /\ Usable(w)
  /\ Do("MoveAssign", v, w, 0, 0, MoveAssign(World, v, w))

\* one sequence, every member operation
Next ==
  \/ DoPushBack("a", MaxCap)
  \/ DoPopBack("a")
  \/ DoInsert("a", MaxCap)
  \/ DoErase("a")
  \/ DoReserve("a", MaxCap)
  \/ DoResize("a", MaxCap)
  \/ DoDestruct("a")
  \/ DoDefaultConstruct("a")
  \/ DoSizedConstruct("a", MaxCap)

Spec == Init /\ [][Next]_vars

\* two sequences, smaller ones, and the operations that take both
Next2 ==
  \/ \E v \in Vecs : DoPushBack(v, MaxCap2)
  \/ \E v \in Vecs : DoPopBack(v)
  \/ \E v \in Vecs : DoErase(v)
  \/ \E v \in Vecs : DoReserve(v, MaxCap2)
  \/ \E v \in Vecs : DoDestruct(v)
  \/ \E v \in Vecs : DoDefaultConstruct(v)
  \/ \E v, w \in Vecs : DoCopyConstruct(v, w)
  \/ \E v, w \in Vecs : DoMoveConstruct(v, w)
  \/ \E v, w \in Vecs : DoCopyAssign(v, w)
  \/ \E v, w \in Vecs : DoMoveAssign(v, w)

Spec2 == Init /\ [][Next2]_vars

\* ----------------------------------------------- actions on RawMemory
DoRawMemory(v, C) ==
  /\ ~vec[v].alive
  /\ \E n \in 0..C :
     \E t \in Throwing(IF n = 0 THEN 0 ELSE 1, 0, 0, 0) :
       Do("RawMemory", v, v, n, 0, RawMemoryConstruct(World, v, n, t))

DoRawMemoryDefault(v) ==
  /\ ~vec[v].alive
  /\ Do("RawMemory()", v, v, 0, 0, DefaultConstruct(World, v))

DoRawMemoryMove(v, w) ==
  /\ ~vec[v].alive /\ vec[w].alive
  /\ Do("RawMemoryMove", v, w, 0, 0, RawMemoryMoveConstruct(World, v, w))

DoRawMemoryMoveAssign(v, w) ==
  /\ vec[v].alive /\ vec[w].alive
  /\ Do("RawMemoryMoveAssign", v, w, 0, 0, RawMemoryMoveAssign(World, v, w))

DoRawMemorySwap(v, w) ==
  /\ vec[v].alive /\ vec[w].alive
  /\ Do("RawMemorySwap", v, w, 0, 0,
        Res(RawMemorySwap(World, v, w), heap, FALSE, NoIt, {}, 0))

DoRawMemoryDestruct(v) ==
  /\ vec[v].alive
  /\ Do("~RawMemory", v, v, 0, 0, RawMemoryDestruct(World, v))

\* two RawMemory objects, every operation of the class that changes one
NextRaw ==
  \/ \E v \in Vecs : DoRawMemory(v, MaxCap2)
  \/ \E v \in Vecs : DoRawMemoryDefault(v)
  \/ \E v \in Vecs, w \in Vecs : DoRawMemoryMove(v, w)
  \/ \E v \in Vecs, w \in Vecs : DoRawMemoryMoveAssign(v, w)
  \/ \E v \in Vecs, w \in Vecs : DoRawMemorySwap(v, w)
  \/ \E v \in Vecs : DoRawMemoryDestruct(v)

SpecRaw == Init /\ [][NextRaw]_vars

\* ------------------------------------------------------- a scripted run
\* A run on one Vector<int>, starting empty, of three EmplaceBack, an
\* Insert, an Erase and two Resize, with any arguments and no allocation
\* failure.  script lists the calls made.
Scripted(op, p, x, r) ==
  /\ Called(op, "a", "a", p, x, r)
  /\ script' = Append(script, [op |-> op, p |-> p, x |-> x])

InitInt == Init /\ kind = "Trivial"

ScriptEmplaceBack ==
  /\ Len(script) < 3
  /\ \E x \in IntValues :
       Scripted("EmplaceBack", 0, x, EmplaceBack(World, "a", x, 0))

ScriptInsert ==
  /\ Len(script) = 3
  /\ \E p \in 0..vec["a"].size, x \in IntValues :
       Scripted("Insert", p, x, Emplace(World, "a", p, x, 0))

ScriptErase ==
  /\ Len(script) = 4
  /\ \E p \in 0..(vec["a"].size - 1) :
       Scripted("Erase", p, 0, Erase(World, "a", p))

ScriptResize(C) ==
  /\ Len(script) \in {5, 6}
  /\ \E n \in 0..C :
       Scripted("Resize", n, 0, Resize(World, "a", n, 0))

NextInt ==
  \/ ScriptEmplaceBack
  \/ ScriptInsert
  \/ ScriptErase
  \/ ScriptResize(MaxCap)

SpecInt == InitInt /\ [][NextInt]_vars

\* ------------------------------- a value that refers into the sequence
\* Insert(pos, v[j]) and PushBack(v[j]); call.x is the value v[j] has when
\* the call is made
DoInsertRef(v, C) ==
  LET d == vec[v] IN
  /\ Usable(v)
  /\ d.size < d.cap \/ 2 * d.size <= C
  /\ \E p \in 0..d.size, j \in 0..(d.size - 1), u \in Values \cup {Default} :
     \E t \in IF d.size = d.cap THEN Throwing(1, 1 + Relocs(d.size), 0, 0)
               ELSE Throwing(0, 1, 1 + d.size - p, 0) :
       Do("InsertRef", v, v, p, Elems(World, v)[j + 1],
          EmplaceRef(World, v, p, j, u, t))

DoPushBackRef(v, C) ==
  LET d == vec[v] IN
  /\ Usable(v)
  /\ d.size < d.cap \/ 2 * d.size <= C
  /\ \E j \in 0..(d.size - 1) :
     \E t \in IF d.size < d.cap THEN Throwing(0, 1, 0, 0)
               ELSE Throwing(1, 1 + Relocs(d.size), 0, 0) :
       Do("PushBackRef", v, v, d.size, Elems(World, v)[j + 1],
          EmplaceBackRef(World, v, j, t))

NextRef ==
  \/ DoPushBack("a", MaxCap)
  \/ DoPopBack("a")
  \/ DoReserve("a", MaxCap)
  \/ DoInsertRef("a", MaxCap)
  \/ DoPushBackRef("a", MaxCap)

SpecRef == Init /\ [][NextRef]_vars

\* --------------------------------------------------------------- claims
\* what Erase(p) and Insert(p, x) are to make of the elements s
Remove(s, p) ==
  [i \in 1..(Len(s) - 1) |-> IF i <= p THEN s[i] ELSE s[i + 1]]

InsertAt(s, p, x) ==
  [i \in 1..(Len(s) + 1) |->
     IF i <= p THEN s[i] ELSE IF i = p + 1 THEN x ELSE s[i - 1]]

\* C1: between operations, also after one that failed, the slots of a
\* sequence that hold an object are exactly the slots [0, size).
C1_LiveSlotsAreThePrefix ==
  \A v \in Vecs : vec[v].alive => Valid(World, v)

\* C2: Erase(p) leaves s[0..p) followed by s[p+1..n), size n - 1, the
\* capacity unchanged, and returns the iterator to index p.
C2_EraseRemovesTheElement ==
  [][call'.op = "Erase" =>
       LET v == call'.v
           p == call'.p
       IN /\ Elems(After, v) = Remove(Elems(World, v), p)
          /\ vec'[v].size = vec[v].size - 1
          /\ vec'[v].cap = vec[v].cap
          /\ call'.ret = [buf |-> vec'[v].buf, idx |-> p]]_vars

\* C3: a successful Insert(p, x) leaves s[0..p), x, s[p..n), size n + 1, and
\* returns the iterator to index p of the buffer the sequence then has, in
\* the reallocating and in the in-place branch, whatever a move leaves in
\* its source.
C3_InsertPlacesTheElement ==
  [][(call'.op = "Insert" /\ ~call'.failed) =>
       LET v == call'.v
           p == call'.p
       IN /\ Elems(After, v) = InsertAt(Elems(World, v), p, call'.x)
          /\ vec'[v].size = vec[v].size + 1
          /\ call'.ret = [buf |-> vec'[v].buf, idx |-> p]]_vars

\* two constructed sequences never have a buffer in common
NoCommonBuffer(V) ==
  \A v, w \in Vecs :
    (v # w /\ V[v].alive /\ V[w].alive /\ V[v].buf # 0) => V[v].buf # V[w].buf

\* C4, as claimed: move construction and move assignment leave the source
\* with size 0 and the destination with the source's elements, with no
\* buffer in common, whatever the destination of a move assignment held.
C4_MoveLeavesTheSourceEmpty ==
  [][(call'.op \in {"MoveConstruct", "MoveAssign"} /\ call'.v # call'.w) =>
       /\ Elems(After, call'.v) = Elems(World, call'.w)
       /\ vec'[call'.w].size = 0
       /\ NoCommonBuffer(vec')]_vars

\* C4, amended: move construction leaves the source with size 0 and
\* capacity 0; move assignment between two sequences exchanges them, so the
\* source ends with the elements, size and capacity the destination had
\* (size 0 only if the destination was empty); either way the destination
\* has the source's elements and the two have no buffer in common.
C4_MoveExchanges ==
  [][(call'.op \in {"MoveConstruct", "MoveAssign"} /\ call'.v # call'.w) =>
       LET v == call'.v
           w == call'.w
       IN /\ Elems(After, v) = Elems(World, w)
          /\ vec'[v] = vec[w]
          /\ NoCommonBuffer(vec')
          /\ heap' = heap
          /\ call'.op = "MoveConstruct" => vec'[w] = Empty
          /\ call'.op = "MoveAssign" =>
               vec'[w] = vec[v] /\ Elems(After, w) = Elems(World, v)]_vars

\* a move assignment onto a sequence that was not empty, from one that was
\* not empty, has run
C4_Witness ==
  /\ call.op = "MoveAssign" /\ call.v # call.w
  /\ vec[call.v].size > 0 /\ vec[call.w].size > 0

\* C5: Erase(p) and then Insert(p, x) of the value x the sequence held at p
\* give back the elements and the size the sequence had.
C5_EraseInsertRoundTrip ==
  (call.op = "Insert" /\ call.undoes = "Erase" /\ ~call.failed) =>
    Elems(World, call.v) = call.s

\* C6: a reallocating Insert (size = capacity) that throws leaves size,
\* capacity, buffer and elements as they were, and the new element built in
\* the new buffer destroyed.
C6_ReallocatingInsertStrong ==
  [][(call'.op = "Insert" /\ call'.failed
        /\ vec[call'.v].size = vec[call'.v].cap) =>
       LET v == call'.v
       IN /\ vec'[v] = vec[v]
          /\ Buf(heap', vec[v].buf) = Buf(heap, vec[v].buf)
          /\ call'.p \notin call'.leaked]_vars

\* a reallocating Insert has thrown while copying the old elements, after
\* the new element and a prefix were in the new buffer (the prefix is what
\* that buffer still held)
C6_Witness ==
  /\ call.op = "Insert" /\ call.failed
  /\ vec[call.v].size = vec[call.v].cap
  /\ call.leaked # {}

\* C7: Reserve(n) with n > capacity and PushBack on a full sequence, when
\* the allocation, the construction of the new element or a copy of an old
\* one throws, leave size, capacity, buffer and elements as they were.
C7_ReserveAndPushBackStrong ==
  [][(call'.failed
        /\ \/ call'.op = "Reserve" /\ call'.p > vec[call'.v].cap
           \/ call'.op = "PushBack" /\ vec[call'.v].size = vec[call'.v].cap) =>
       LET v == call'.v
       IN /\ vec'[v] = vec[v]
          /\ Buf(heap', vec[v].buf) = Buf(heap, vec[v].buf)]_vars

\* a Reserve that had to grow a sequence of two or more elements has thrown
C7_Witness ==
  /\ call.op = "Reserve" /\ call.failed
  /\ call.p > vec[call.v].cap /\ vec[call.v].size >= 2

\* C8: PushBack and then PopBack give back the size and the elements the
\* sequence had, whether or not the PushBack reallocated.
C8_PushPopRoundTrip ==
  (call.op = "PopBack" /\ call.undoes = "PushBack") =>
    /\ Elems(World, call.v) = call.s
    /\ vec[call.v].size = Len(call.s)

\* the PopBack after a PushBack that reallocated a sequence of two elements
C8_Witness ==
  /\ call.op = "PopBack" /\ call.undoes = "PushBack"
  /\ Len(call.s) = 2 /\ vec[call.v].cap = 4

\* C9: a successful a = b, a and b distinct, leaves a with b's size and
\* elements and b as it was; with b.size <= a.capacity, a keeps its
\* capacity and its buffer; with b.size > a.capacity, a failure leaves a as
\* it was.
C9_CopyAssign ==
  [][(call'.op = "CopyAssign" /\ call'.v # call'.w) =>
       LET a == call'.v
           b == call'.w
       IN /\ ~call'.failed =>
               /\ vec'[a].size = vec[b].size
               /\ Elems(After, a) = Elems(World, b)
          /\ vec'[b] = vec[b]
          /\ Buf(heap', vec[b].buf) = Buf(heap, vec[b].buf)
          /\ vec[b].size <= vec[a].cap =>
               vec'[a].cap = vec[a].cap /\ vec'[a].buf = vec[a].buf
          /\ (vec[b].size > vec[a].cap /\ call'.failed) =>
               /\ vec'[a] = vec[a]
               /\ Buf(heap', vec[a].buf) = Buf(heap, vec[a].buf)]_vars

\* a = b has run in the reuse branch (a's capacity is more than the size
\* it took from b) with elements to copy
C9_Witness ==
  /\ call.op = "CopyAssign" /\ call.v # call.w /\ ~call.failed
  /\ vec[call.v].size = vec[call.w].size
  /\ vec[call.v].size >= 1 /\ vec[call.v].cap > vec[call.v].size

\* C10: a copy-constructed sequence has the size and the elements of its
\* source and a buffer of its own, and no operation on one sequence changes
\* the size or the elements of another.
C10_CopyIsIndependent ==
  [][/\ (call'.op = "CopyConstruct" /\ ~call'.failed) =>
          /\ vec'[call'.v].size = vec[call'.w].size
          /\ Elems(After, call'.v) = Elems(World, call'.w)
          /\ NoCommonBuffer(vec')
     /\ \A u \in Vecs :
          (/\ vec[u].alive
           /\ u # call'.v
           /\ ~(u = call'.w /\ call'.op \in {"MoveConstruct", "MoveAssign"})) =>
            /\ vec'[u].size = vec[u].size
            /\ vec'[u].alive
            /\ Elems(After, u) = Elems(World, u)]_vars

\* a sequence of two or more elements has been copy-constructed
C10_Witness ==
  /\ call.op = "CopyConstruct" /\ ~call.failed
  /\ vec[call.v].size >= 2

\* C11: Reserve(n) with n <= capacity, Reserve(0) among them, changes
\* nothing: the capacity, the buffer, the size and the elements are as they
\* were, and the call does not fail.
C11_ReserveWithinCapacityIsNoOp ==
  [][(call'.op = "Reserve" /\ call'.p <= vec[call'.v].cap) =>
       /\ vec' = vec
       /\ heap' = heap
       /\ ~call'.failed
       /\ call'.leaked = {}]_vars

\* a Reserve below the capacity of a sequence that holds elements has run
C11_Witness ==
  /\ call.op = "Reserve" /\ ~call.failed
  /\ call.p < vec[call.v].cap
  /\ vec[call.v].size >= 1

\* C12: a Resize(n) that returns leaves size n.  With n <= size the first n
\* elements keep their values, the slots from n on hold no object, and the
\* capacity and the buffer are as they were.  With n > size the old
\* elements keep their values and order, the slots [size, n) hold
\* value-initialized elements, and the capacity is at least n.
C12_Resize ==
  [][(call'.op = "Resize" /\ ~call'.failed) =>
       LET v == call'.v
           n == call'.p
           s == Elems(World, v)
           s2 == Elems(After, v)
       IN /\ vec'[v].size = n
          /\ Valid(After, v)
          /\ n <= vec[v].size =>
               /\ s2 = SubSeq(s, 1, n)
               /\ vec'[v].cap = vec[v].cap
               /\ vec'[v].buf = vec[v].buf
          /\ n > vec[v].size =>
               /\ SubSeq(s2, 1, Len(s)) = s
               /\ \A i \in (Len(s) + 1)..n : s2[i] = Default
               /\ vec'[v].cap >= n]_vars

\* a Resize(3) has returned on a sequence whose first element is not the
\* default value and whose other two are
C12_Witness ==
  /\ call.op = "Resize" /\ ~call.failed /\ call.p = 3
  /\ Elems(World, call.v) = <<1, Default, Default>>
  /\ vec[call.v].cap = 3

\* C13: after every operation on a RawMemory object, the buffer of each
\* object is non-null exactly when its capacity is above 0; and after a move
\* construction or a move assignment from another object, that source has
\* capacity 0 and a null buffer.
C13_ArenaInvariant ==
  /\ \A v \in Vecs : vec[v].alive => (vec[v].buf # 0 <=> vec[v].cap > 0)
  /\ (call.op \in {"RawMemoryMove", "RawMemoryMoveAssign"} /\ call.v # call.w)
       => (vec[call.w].buf = 0 /\ vec[call.w].cap = 0)

\* C14: in every reachable state, after operations that failed too, the
\* size of a sequence is at least 0 and at most its capacity; and a PopBack
\* on an empty sequence changes nothing.
C14_SizeWithinCapacity ==
  /\ \A v \in Vecs : vec[v].alive => (0 <= vec[v].size /\ vec[v].size <= vec[v].cap)
  /\ [][/\ \A v \in Vecs :
             vec'[v].alive => (0 <= vec'[v].size /\ vec'[v].size <= vec'[v].cap)
        /\ (call'.op = "PopBack" /\ vec[call'.v].size = 0) =>
             (vec' = vec /\ heap' = heap /\ ~call'.failed)]_vars

\* a PopBack has run on an empty sequence that owns a buffer
C14_Witness ==
  /\ call.op = "PopBack" /\ call.undoes = "none"
  /\ vec[call.v].size = 0 /\ vec[call.v].cap = MaxCap
  /\ Live(Buf(heap, vec[call.v].buf)) = {}

\* the calls of the scenario, and the elements and the capacity it names
\* after each of them
Scenario ==
  <<[op |-> "EmplaceBack", p |-> 0, x |-> 1],
    [op |-> "EmplaceBack", p |-> 0, x |-> 2],
    [op |-> "EmplaceBack", p |-> 0, x |-> 3],
    [op |-> "Insert", p |-> 1, x |-> 99],
    [op |-> "Erase", p |-> 2, x |-> 0],
    [op |-> "Resize", p |-> 1, x |-> 0],
    [op |-> "Resize", p |-> 3, x |-> 0]>>

ScenarioElems ==
  << <<1>>, <<1, 2>>, <<1, 2, 3>>, <<1, 99, 2, 3>>, <<1, 99, 3>>, <<1>>,
     <<1, 0, 0>> >>

ScenarioCapacity == <<1, 2, 4, 4, 4, 4, 4>>

\* C15: on a Vector<int> that starts empty with capacity 0,
\* EmplaceBack(1), EmplaceBack(2), EmplaceBack(3) give [1], [1,2], [1,2,3]
\* with capacity 1, 2, 4; then Insert(begin+1, 99) gives [1,99,2,3],
\* Erase(begin+2) gives [1,99,3], Resize(1) gives [1] with capacity still
\* 4, and Resize(3) gives [1,0,0]; the size is the number of elements
\* after each call.
C15_Scenario ==
  /\ script = <<>> => (vec["a"].size = 0 /\ vec["a"].cap = 0)
  /\ \A k \in 1..Len(Scenario) :
       script = SubSeq(Scenario, 1, k) =>
         /\ ~call.failed
         /\ Valid(World, "a")
         /\ Elems(World, "a") = ScenarioElems[k]
         /\ vec["a"].size = Len(ScenarioElems[k])
         /\ vec["a"].cap = ScenarioCapacity[k]

\* the scenario has run to its end
C15_Witness == script = Scenario

\* the capacity a call is to leave when it returns: 1 or twice the size for
\* a PushBack or an Insert on a full sequence, n for a Reserve(n) or a
\* Resize(n) with n above the capacity, and the capacity there was otherwise
GrownCapacity(op, d, n) ==
  IF op \in {"PushBack", "Insert"} /\ d.size = d.cap
    THEN IF d.size = 0 THEN 1 ELSE 2 * d.size
  ELSE IF op \in {"Reserve", "Resize"} /\ n > d.cap THEN n
  ELSE d.cap

\* C16: a PushBack or an Insert on a full sequence that returns leaves
\* capacity 1 (size 0) or 2 * size; a Reserve(n) or a Resize(n) with n
\* above the capacity that returns leaves capacity n; every other call of
\* these, and PopBack and Erase, leave the capacity and the buffer as they
\* were.  A call that fails leaves the old capacity or the new one.  The
\* capacity never decreases.
C16_CapacityChanges ==
  [][(call'.op \in {"PushBack", "Insert", "Reserve", "Resize", "PopBack", "Erase"}) =>
       LET v == call'.v
           d == vec[v]
           g == GrownCapacity(call'.op, d, call'.p)
       IN /\ ~call'.failed => vec'[v].cap = g
          /\ vec'[v].cap \in {d.cap, g}
          /\ vec'[v].cap = d.cap => vec'[v].buf = d.buf
          /\ vec'[v].cap >= d.cap]_vars

\* an Insert into a full sequence of two elements has returned and left
\* capacity 4
C16_Witness ==
  /\ call.op = "Insert" /\ ~call.failed
  /\ vec[call.v].size = 3 /\ vec[call.v].cap = 4
  /\ call.ret.buf = vec[call.v].buf
  /\ Live(Buf(heap, vec[call.v].buf)) = 1..3

\* the values of t with which an in-place Insert at p throws in its right
\* shift: in the construction of the last element one slot up, or in one
\* of the assignments of std::move_backward
ShiftThrows(d, p) ==
  IF MoveMayThrow /\ d.size # 0 THEN 1..(1 + d.size - p) ELSE {}

C18_NoObjectLeftInReleasedBuffer == call.leaked = {}

\* C19: an Insert(pos, value) or a PushBack(value) that returns, value
\* being a reference to an element of the same sequence, leaves the
\* elements the sequence had with, at pos (at the end for PushBack), a copy
\* of the value the element referred to had before the call, whether the
\* call reallocates or not.
C19_InsertOfOwnElement ==
  [][(call'.op \in {"InsertRef", "PushBackRef"} /\ ~call'.failed) =>
       LET v == call'.v
       IN /\ Valid(After, v)
          /\ Elems(After, v) = InsertAt(Elems(World, v), call'.p, call'.x)]_vars

====
